---------------------------- MODULE Spec2Model ----------------------------
(***************************************************************************)
(* A model of scilpy/io/varian_fdf.py: the reader of Varian FDF files      *)
(* (read_file), the assembler of a directory of slices (read_directory)    *)
(* and their entry point (load_fdf).                                       *)
(*                                                                         *)
(* A file is a sequence of bytes 0..255.  Text is a sequence of character  *)
(* codes, so chr(12) is 12, '"' is 34, ';' is 59, '=' is 61, [0-9] is      *)
(* 48..57 and [a-z] is 97..122.  Indices into strings are 0-based, as in   *)
(* the source; At and Slice translate to TLA+'s 1-based sequences.         *)
(* Floating-point quantities of the header are exact rationals [n, d];     *)
(* an unpacked 32-bit float is the integer of its bytes, most significant  *)
(* first.                                                                  *)
(***************************************************************************)
EXTENDS Integers, Sequences, FiniteSets, TLC

\* ------------------------------------------------------------------------
\* Bounds of the model
\* ------------------------------------------------------------------------
\* largest size of one axis in a matrix declaration
MaxDim == 3
\* largest number of values on a roi line
MaxRoi == 4
\* largest number of .fdf files in a directory
MaxFiles == 4

\* ------------------------------------------------------------------------
\* Small arithmetic helpers
\* ------------------------------------------------------------------------
Abs(x) == IF x < 0 THEN -x ELSE x

RECURSIVE GCD(_, _)
GCD(a, b) == IF b = 0 THEN a ELSE GCD(b, a % b)

\* exact rationals standing for Python floats
Rat(n, d) == LET g == GCD(Abs(n), d) IN [n |-> n \div g, d |-> d \div g]
RatMul(r, k) == Rat(r.n * k, r.d)
RatDivInt(r, k) == IF k > 0 THEN Rat(r.n, r.d * k) ELSE Rat(-r.n, r.d * (-k))
\* int(x) of a float: truncation towards zero
RatTrunc(r) == IF r.n >= 0 THEN r.n \div r.d ELSE -((-r.n) \div r.d)

RECURSIVE Prod(_)
Prod(s) == IF s = <<>> THEN 1 ELSE Head(s) * Prod(Tail(s))

RECURSIVE Pow10(_)
Pow10(k) == IF k = 0 THEN 1 ELSE 10 * Pow10(k - 1)

Reverse(s) == [i \in 1..Len(s) |-> s[Len(s) + 1 - i]]

\* ------------------------------------------------------------------------
\* Python string primitives
\* ------------------------------------------------------------------------
Digits == 48..57
Lower == 97..122
Whitespace == {9, 10, 11, 12, 13, 28, 29, 30, 31, 32}

At(s, i) == s[i + 1]
Slice(s, a, b) == SubSeq(s, a + 1, b)

StartsAt(s, sub, i) ==
    /\ i + Len(sub) <= Len(s)
    /\ \A k \in 1..Len(sub) : s[i + k] = sub[k]

RECURSIVE FindFrom(_, _, _)
FindFrom(s, sub, i) ==
    IF i + Len(sub) > Len(s) THEN -1
    ELSE IF StartsAt(s, sub, i) THEN i
    ELSE FindFrom(s, sub, i + 1)

\* str.find(sub): the lowest index where sub starts, -1 when there is none
Find(s, sub) == FindFrom(s, sub, 0)

RECURSIVE RstripTo(_, _)
RstripTo(s, n) ==
    IF n = 0 THEN <<>>
    ELSE IF s[n] \in Whitespace THEN RstripTo(s, n - 1)
    ELSE SubSeq(s, 1, n)

\* str.rstrip()
Rstrip(s) == RstripTo(s, Len(s))

RECURSIVE StripQuotes(_)
\* str.strip('"')
StripQuotes(s) ==
    IF s = <<>> THEN s
    ELSE IF s[1] = 34 THEN StripQuotes(Tail(s))
    ELSE IF s[Len(s)] = 34 THEN StripQuotes(SubSeq(s, 1, Len(s) - 1))
    ELSE s

RECURSIVE RunLen(_, _, _)
\* number of consecutive characters of class C from index i on
RunLen(s, i, C) ==
    IF i >= Len(s) THEN 0
    ELSE IF At(s, i) \notin C THEN 0
    ELSE 1 + RunLen(s, i + 1, C)

\* ------------------------------------------------------------------------
\* The regular expressions of read_file
\* ------------------------------------------------------------------------
\* float_regex = '[-+]?[0-9]*\.?[0-9]+' matched at index i: the end of the
\* match (exclusive), -1 when it does not match there
FloatEnd(s, i) ==
    LET j == IF i < Len(s) /\ At(s, i) \in {43, 45} THEN i + 1 ELSE i
        m == RunLen(s, j, Digits)
        f == IF j + m < Len(s) /\ At(s, j + m) = 46
             THEN RunLen(s, j + m + 1, Digits) ELSE 0
    IN  IF f >= 1 THEN j + m + 1 + f
        ELSE IF m >= 1 THEN j + m
        ELSE -1

RECURSIVE FindallFloatFrom(_, _)
FindallFloatFrom(s, i) ==
    IF i >= Len(s) THEN <<>>
    ELSE LET e == FloatEnd(s, i)
         IN  IF e = -1 THEN FindallFloatFrom(s, i + 1)
             ELSE <<Slice(s, i, e)>> \o FindallFloatFrom(s, e)

\* re.findall(float_regex, s)
FindallFloat(s) == FindallFloatFrom(s, 0)

RECURSIVE FindallDigitsFrom(_, _)
FindallDigitsFrom(s, i) ==
    IF i >= Len(s) THEN <<>>
    ELSE LET m == RunLen(s, i, Digits)
         IN  IF m = 0 THEN FindallDigitsFrom(s, i + 1)
             ELSE <<Slice(s, i, i + m)>> \o FindallDigitsFrom(s, i + m)

\* re.findall('(\d+)', s)
FindallDigits(s) == FindallDigitsFrom(s, 0)

\* '\"[a-z]{2}\"' matched at index i
UnitAt(s, i) ==
    /\ i + 4 <= Len(s)
    /\ At(s, i) = 34
    /\ At(s, i + 1) \in Lower
    /\ At(s, i + 2) \in Lower
    /\ At(s, i + 3) = 34

RECURSIVE FindallUnitsFrom(_, _)
FindallUnitsFrom(s, i) ==
    IF i >= Len(s) THEN <<>>
    ELSE IF UnitAt(s, i)
         THEN <<Slice(s, i, i + 4)>> \o FindallUnitsFrom(s, i + 4)
         ELSE FindallUnitsFrom(s, i + 1)

\* re.findall('\"[a-z]{2}\"', s)
FindallUnits(s) == FindallUnitsFrom(s, 0)

\* named_value_regex = '= *\"*(.*[^\"])\"* *;'
\* what follows the group: quotes, spaces, then ';'
NamedTailOk(s, k) ==
    LET q == RunLen(s, k, {34})
        sp == RunLen(s, k + q, {32})
    IN  k + q + sp < Len(s) /\ At(s, k + q + sp) = 59

RECURSIVE RunNoNewline(_, _)
\* number of consecutive characters '.' matches from index i on
RunNoNewline(s, i) ==
    IF i >= Len(s) THEN 0
    ELSE IF At(s, i) = 10 THEN 0
    ELSE 1 + RunNoNewline(s, i + 1)

RECURSIVE GroupEnd(_, _, _)
\* the group starting at g: the index of its last character, the largest
\* one at or below e that is no quote and is followed by the tail; -1 when
\* there is none
GroupEnd(s, g, e) ==
    IF e < g THEN -1
    ELSE IF At(s, e) # 34 /\ NamedTailOk(s, e + 1) THEN e
    ELSE GroupEnd(s, g, e - 1)

RECURSIVE NamedAt(_, _, _, _)
\* the match with '=' at index p that a backtracking engine finds first,
\* trying ns spaces and nq quotes and then fewer (every quantifier is
\* greedy): <<start of the group, its last index>>, <<>> when none
NamedAt(s, p, ns, nq) ==
    LET g == p + 1 + ns + nq
        last == g + RunNoNewline(s, g)
        e == GroupEnd(s, g, IF last < Len(s) THEN last ELSE Len(s) - 1)
    IN  IF e # -1 THEN <<g, e>>
        ELSE IF nq > 0 THEN NamedAt(s, p, ns, nq - 1)
        ELSE IF ns > 0 THEN NamedAt(s, p, ns - 1, 0)
        ELSE <<>>

RECURSIVE NamedFrom(_, _)
NamedFrom(s, p) ==
    IF p >= Len(s) THEN <<>>
    ELSE IF At(s, p) # 61 THEN NamedFrom(s, p + 1)
    ELSE LET ns == RunLen(s, p + 1, {32})
             m == NamedAt(s, p, ns, RunLen(s, p + 1 + ns, {34}))
         IN  IF m = <<>> THEN NamedFrom(s, p + 1)
             ELSE <<Slice(s, m[1], m[2] + 1)>>

\* re.findall(named_value_regex, s): the group of the first match only
\* (the source reads element [0]); <<>> when nothing matches
FindallNamed(s) == NamedFrom(s, 0)

\* ------------------------------------------------------------------------
\* Conversions of the matched text
\* ------------------------------------------------------------------------
RECURSIVE DigitsValue(_)
DigitsValue(x) ==
    IF x = <<>> THEN 0
    ELSE 10 * DigitsValue(SubSeq(x, 1, Len(x) - 1)) + (x[Len(x)] - 48)

\* the decimal literals float() accepts among those the model meets:
\* [sign] digits [. digits] or [sign] . digits
IsDecimal(x) ==
    LET j == IF Len(x) >= 1 /\ x[1] \in {43, 45} THEN 1 ELSE 0
        m == RunLen(x, j, Digits)
        dot == j + m < Len(x) /\ At(x, j + m) = 46
        f == IF dot THEN RunLen(x, j + m + 1, Digits) ELSE 0
    IN  /\ m + f >= 1
        /\ j + m + (IF dot THEN 1 ELSE 0) + f = Len(x)

\* float(x)
ParseFloat(x) ==
    LET j == IF x[1] \in {43, 45} THEN 1 ELSE 0
        m == RunLen(x, j, Digits)
        dot == j + m < Len(x) /\ At(x, j + m) = 46
        f == IF dot THEN RunLen(x, j + m + 1, Digits) ELSE 0
        mag == DigitsValue(Slice(x, j, j + m)) * Pow10(f)
               + DigitsValue(Slice(x, j + m + 1, j + m + 1 + f))
    IN  Rat(IF x[1] = 45 THEN -mag ELSE mag, Pow10(f))

\* ------------------------------------------------------------------------
\* Bytes: UTF-8 decoding and binary unpacking
\* ------------------------------------------------------------------------
IsCont(b) == b \in 128..191

\* number of bytes of the UTF-8 sequence starting at 0-based index i,
\* 0 when the bytes there are no valid sequence
Utf8Len(b, i) ==
    LET c == At(b, i)
        has(k) == i + k < Len(b) /\ \A j \in 1..k : IsCont(At(b, i + j))
    IN  IF c < 128 THEN 1
        ELSE IF c \in 194..223 /\ has(1) THEN 2
        ELSE IF c \in 224..239 /\ has(2)
                /\ (c = 224 => At(b, i + 1) >= 160)
                /\ (c = 237 => At(b, i + 1) <= 159) THEN 3
        ELSE IF c \in 240..244 /\ has(3)
                /\ (c = 240 => At(b, i + 1) >= 144)
                /\ (c = 244 => At(b, i + 1) <= 143) THEN 4
        ELSE 0

Utf8Point(b, i, k) ==
    IF k = 1 THEN At(b, i)
    ELSE IF k = 2 THEN (At(b, i) - 192) * 64 + (At(b, i + 1) - 128)
    ELSE IF k = 3 THEN (At(b, i) - 224) * 4096 + (At(b, i + 1) - 128) * 64
                       + (At(b, i + 2) - 128)
    ELSE (At(b, i) - 240) * 262144 + (At(b, i + 1) - 128) * 4096
         + (At(b, i + 2) - 128) * 64 + (At(b, i + 3) - 128)

RECURSIVE Utf8From(_, _)
\* bytes.decode(): the code points, or <<-1>> appended where decoding fails
Utf8From(b, i) ==
    IF i >= Len(b) THEN <<>>
    ELSE LET k == Utf8Len(b, i)
         IN  IF k = 0 THEN <<-1>>
             ELSE <<Utf8Point(b, i, k)>> \o Utf8From(b, i + k)

Decode(b) == Utf8From(b, 0)
DecodeFails(text) == Len(text) >= 1 /\ text[Len(text)] = -1

\* fp.readline() at offset pos: up to and including the next newline, or
\* up to the end of the file; empty at the end of the file
ReadLineAt(bytes, pos) ==
    LET n == RunNoNewline(bytes, pos)
    IN  IF pos >= Len(bytes) THEN <<>>
        ELSE IF pos + n >= Len(bytes) THEN Slice(bytes, pos, Len(bytes))
        ELSE Slice(bytes, pos, pos + n + 1)

\* one 4-byte float of struct.unpack: '>' reads the most significant byte
\* first, '<' reads it last; the value stands for the IEEE-754 bit pattern
Word(b1, b2, b3, b4) == ((b1 * 256 + b2) * 256 + b3) * 256 + b4
UnpackOne(order, w) ==
    IF order = 60 THEN Word(w[4], w[3], w[2], w[1])
    ELSE Word(w[1], w[2], w[3], w[4])

\* struct.unpack(fmt, buf) for fmt = order, count, 'f'
Unpack(fmt, buf) ==
    [e \in 1..fmt.count |-> UnpackOne(fmt.order, SubSeq(buf, 4 * e - 3, 4 * e))]

\* ------------------------------------------------------------------------
\* numpy arrays: a shape and the elements in row-major order
\* ------------------------------------------------------------------------
Arr(shape, flat) == [shape |-> shape, flat |-> flat]
Ndim(a) == Len(a.shape)

\* index vector (0-based) of the k-th element (0-based) and back
Unravel(k, shape) ==
    [i \in 1..Len(shape) |->
        (k \div Prod(SubSeq(shape, i + 1, Len(shape)))) % shape[i]]

RECURSIVE RavelFrom(_, _, _)
RavelFrom(idx, shape, i) ==
    IF i > Len(shape) THEN 0
    ELSE idx[i] * Prod(SubSeq(shape, i + 1, Len(shape)))
         + RavelFrom(idx, shape, i + 1)
Ravel(idx, shape) == RavelFrom(idx, shape, 1)

\* a[idx] for a full index vector
Elem(a, idx) == a.flat[Ravel(idx, a.shape) + 1]

\* ndarray.reshape(shape): possible when the element counts agree, every
\* dimension being given (a lone -1 never arises; two -1 are an error)
CanReshape(flat, shape) ==
    /\ \A i \in 1..Len(shape) : shape[i] >= 0
    /\ Prod(shape) = Len(flat)

RECURSIVE DropOnes(_)
DropOnes(shape) ==
    IF shape = <<>> THEN <<>>
    ELSE IF Head(shape) = 1 THEN DropOnes(Tail(shape))
    ELSE <<Head(shape)>> \o DropOnes(Tail(shape))

\* ndarray.squeeze()
Squeeze(a) == Arr(DropOnes(a.shape), a.flat)

\* ndarray.transpose(perm): axis i of the result is axis perm[i] of a
\* (perm holds 0-based axis numbers)
Transpose(a, perm) ==
    LET ns == [i \in 1..Len(perm) |-> a.shape[perm[i] + 1]]
        old(idx) == [j \in 1..Len(perm) |->
                        idx[CHOOSE i \in 1..Len(perm) : perm[i] + 1 = j]]
    IN  Arr(ns, [k \in 1..Len(a.flat) |-> Elem(a, old(Unravel(k - 1, ns)))])

\* a[..., ::-1, ...] on the given axis (0-based)
Flip(a, axis) ==
    LET src(idx) == [j \in 1..Len(idx) |->
                        IF j = axis + 1 THEN a.shape[j] - 1 - idx[j] ELSE idx[j]]
    IN  Arr(a.shape,
            [k \in 1..Len(a.flat) |-> Elem(a, src(Unravel(k - 1, a.shape)))])

\* np.rot90(m): one counter-clockwise quarter turn in the plane of the
\* first two axes, transpose(flip(m, 1), swapped axes)
Rot90(a) ==
    Transpose(Flip(a, 1),
              [i \in 1..Ndim(a) |-> IF i = 1 THEN 1 ELSE IF i = 2 THEN 0 ELSE i - 1])

\* rot90 with one quarter turn instead of three
Rot90Once(a) == Rot90(a)

\* np.rot90(m, 3)
Rot90x3(a) == Rot90(Rot90(Rot90(a)))

RECURSIVE Concat(_)
Concat(ss) == IF ss = <<>> THEN <<>> ELSE Head(ss) \o Concat(Tail(ss))

\* np.array(tuple of equally shaped arrays)
Stack(arrs) ==
    Arr(<<Len(arrs)>> \o arrs[1].shape,
        Concat([i \in 1..Len(arrs) |-> arrs[i].flat]))


\* ------------------------------------------------------------------------
\* The files the model reads
\* ------------------------------------------------------------------------
\* 'echos', 'echo_no', 'nslices', 'slice_no', 'bigendian', 'array_dim',
\* 'studyid': the tags of find_values
K_echos == <<101, 99, 104, 111, 115>>
K_echo_no == <<101, 99, 104, 111, 95, 110, 111>>
K_nslices == <<110, 115, 108, 105, 99, 101, 115>>
K_slice_no == <<115, 108, 105, 99, 101, 95, 110, 111>>
K_bigendian == <<98, 105, 103, 101, 110, 100, 105, 97, 110>>
K_array_dim == <<97, 114, 114, 97, 121, 95, 100, 105, 109>>
K_studyid == <<115, 116, 117, 100, 121, 105, 100>>
\* 'abscissa', 'roi', 'orientation', 'origin', 'matrix'
K_abscissa == <<97, 98, 115, 99, 105, 115, 115, 97>>
K_roi == <<114, 111, 105>>
K_orientation == <<111, 114, 105, 101, 110, 116, 97, 116, 105, 111, 110>>
K_origin == <<111, 114, 105, 103, 105, 110>>
K_matrix == <<109, 97, 116, 114, 105, 120>>
\* 'cm', 'mm', 'um', 'Hz', 'unknown'
U_cm == <<99, 109>>
U_mm == <<109, 109>>
U_um == <<117, 109>>
U_Hz == <<72, 122>>
S_unknown == <<117, 110, 107, 110, 111, 119, 110>>

\* '#!/usr/local/fdf/startup\n'
T_magic == <<35, 33, 47, 117, 115, 114, 47, 108, 111, 99, 97, 108, 47, 102,
             100, 102, 47, 115, 116, 97, 114, 116, 117, 112, 10>>
\* 'float  matrix[] = {'
T_matrix_open == <<102, 108, 111, 97, 116, 32, 32, 109, 97, 116, 114, 105,
                   120, 91, 93, 32, 61, 32, 123>>
\* 'char  *abscissa[] = {'
T_abscissa_open == <<99, 104, 97, 114, 32, 32, 42, 97, 98, 115, 99, 105, 115,
                     115, 97, 91, 93, 32, 61, 32, 123>>
\* 'float  roi[] = {'
T_roi_open == <<102, 108, 111, 97, 116, 32, 32, 114, 111, 105, 91, 93, 32,
                61, 32, 123>>
\* 'int    bigendian = '
T_bigendian == <<105, 110, 116, 32, 32, 32, 32, 98, 105, 103, 101, 110, 100,
                 105, 97, 110, 32, 61, 32>>
\* 'float  array_dim = '
T_array_dim == <<102, 108, 111, 97, 116, 32, 32, 97, 114, 114, 97, 121, 95,
                 100, 105, 109, 32, 61, 32>>
\* '};\n'   ', '   '.0000'   ';\n'   '\x0c\n'
T_close == <<125, 59, 10>>
T_comma == <<44, 32>>
T_frac == <<46, 48, 48, 48, 48>>
T_end == <<59, 10>>
T_sentinel == <<12, 10>>

RECURSIVE Decimal(_)
\* the decimal digits of a natural number
Decimal(n) == IF n < 10 THEN <<48 + n>> ELSE Decimal(n \div 10) \o <<48 + (n % 10)>>

RECURSIVE Join(_, _)
Join(parts, sep) ==
    IF parts = <<>> THEN <<>>
    ELSE IF Len(parts) = 1 THEN parts[1]
    ELSE parts[1] \o sep \o Join(Tail(parts), sep)

\* the i-th number of a roi line: '1.0', '0.2', '3.0', '0.4', ...
RoiValue(i) ==
    IF i % 2 = 1 THEN Decimal(i) \o <<46, 48>> ELSE <<48, 46>> \o Decimal(i)

MatrixLine(dims) ==
    T_matrix_open \o Join([i \in 1..Len(dims) |-> Decimal(dims[i])], T_comma)
    \o T_close
AbscissaLine(u) ==
    T_abscissa_open \o <<34>> \o u \o <<34>> \o T_comma \o <<34>> \o u \o <<34>>
    \o T_close
RoiLine(k) == T_roi_open \o Join([i \in 1..k |-> RoiValue(i)], <<44>>) \o T_close
BigendianLine(v) == T_bigendian \o Decimal(v) \o T_end
ArrayDimLine(t) == T_array_dim \o Decimal(t) \o T_frac \o T_end

\* What a file holds: the matrix dimensions (<<>>: no matrix line), the
\* number of roi values (0: no roi line), the bigendian flag (-1: no line),
\* the unit of the abscissa line (<<>>: no line), array_dim (-1: no line),
\* what follows the header ("ff": the form-feed line, then the payload;
\* "none", "ffline", "binary": no form-feed line, and a payload that is
\* plain, holds a form-feed after a newline, or is no UTF-8 text), and how
\* many 4-byte elements the payload has beyond product(matrix).
HeaderText(d) ==
    T_magic
    \o (IF d.matrix = <<>> THEN <<>> ELSE MatrixLine(d.matrix))
    \o (IF d.unit = <<>> THEN <<>> ELSE AbscissaLine(d.unit))
    \o (IF d.nroi = 0 THEN <<>> ELSE RoiLine(d.nroi))
    \o (IF d.bigendian = -1 THEN <<>> ELSE BigendianLine(d.bigendian))
    \o (IF d.array_dim = -1 THEN <<>> ELSE ArrayDimLine(d.array_dim))
    \o (IF d.tail = "ff" THEN T_sentinel ELSE <<>>)

PayloadCount(d) ==
    LET n == (IF d.matrix = <<>> THEN 1 ELSE Prod(d.matrix)) + d.extra
    IN  IF n < 0 THEN 0 ELSE n

\* the four bytes of element e (0-based) of the payload of the f-th file
PayloadWord(d, f, e) ==
    <<32 + e,
      IF d.tail = "ffline" THEN 10 ELSE 0,
      IF d.tail = "ffline" THEN 12 ELSE IF d.tail = "binary" THEN 128 ELSE 0,
      64 + f>>

Payload(d, f) == Concat([e \in 1..PayloadCount(d) |-> PayloadWord(d, f, e - 1)])

FileBytes(d, f) == HeaderText(d) \o Payload(d, f)

\* matrix declarations: none, two axes, or three axes (the third short)
Planes == [1..2 -> 1..MaxDim]
Volumes == {m \in [1..3 -> 1..MaxDim] : m[3] <= 2}
MatrixChoices == {<<>>} \cup Planes \cup Volumes
UnitChoices == {<<>>, U_cm, U_mm, U_um, U_Hz}
TailChoices ==
    ({"ff"} \X {-1, 0, 1}) \cup ({"none", "ffline", "binary"} \X {0})

Desc(m, k, b, u, t, x) ==
    [matrix |-> m, nroi |-> k, bigendian |-> b, unit |-> u, array_dim |-> t,
     tail |-> x[1], extra |-> x[2]]

\* files that vary in geometry, byte order and payload
GeometryFiles ==
    {Desc(m, k, b, U_cm, -1, x) :
        m \in MatrixChoices, k \in 0..MaxRoi, b \in {-1, 0, 1}, x \in TailChoices}

\* well-formed two-dimensional files that vary in the scalar header fields
FieldFiles ==
    {Desc(m, 3, b, u, t, <<"ff", 0>>) :
        m \in {<<2, 2>>, <<2, 3>>}, b \in {-1, 0, 1}, u \in UnitChoices,
        t \in {-1, 2}}

\* a single file given to load_fdf
FileInputs ==
    {[isdir |-> FALSE, n |-> 1, d |-> d] : d \in GeometryFiles \cup FieldFiles}

\* a directory of n files of one acquisition: the same header, the payload
\* of each slice its own
DirInputs ==
    {[isdir |-> TRUE, n |-> n, d |-> Desc(m, k, 0, U_cm, t, <<"ff", 0>>)] :
        n \in 0..MaxFiles,
        m \in {<<>>, <<1, 2>>, <<2, 2>>, <<2, 3>>, <<2, 2, 2>>},
        k \in 0..MaxRoi, t \in -1..MaxFiles}

\* what os.path.exists(procpar_path) and the procpar file hold: no file, a
\* file without all four gradient entries, a file with all of them
ProcparKinds == {"absent", "partial", "full"}


\* ------------------------------------------------------------------------
\* Python values
\* ------------------------------------------------------------------------
\* a str and an int, told apart as type() tells them apart
PyStr(s) == [type |-> "str", val |-> s]
\* the objects read_file and read_directory hand back
Dict(h) == [kind |-> "dict", v |-> h]
NdArray(a) == [kind |-> "ndarray", v |-> a]
PyNone == [kind |-> "None", v |-> <<>>]
PyTuple(t) == [kind |-> "tuple", v |-> t]
\* nothing returned yet
Unset == [kind |-> "unset", v |-> <<>>]

\* header[key] = value
Put(h, key, value) ==
    [k \in (DOMAIN h) \cup {key} |-> IF k = key THEN value ELSE h[k]]

Ok(h) == [err |-> "", h |-> h]
Raise(e, h) == [err |-> e, h |-> h]

\* ------------------------------------------------------------------------
\* read_file: the header
\* ------------------------------------------------------------------------
\* raw_header as lines 93-96 leave it
InitialHeader ==
    [k \in {"shape", "endian"} |->
        IF k = "shape" THEN <<-1, -1, 1, 1>> ELSE PyStr(<<62>>)]

\* (tag_in_file, tag_in_header)
find_values ==
    << [file_key |-> K_echos, head_key |-> "nechoes"],
       [file_key |-> K_echo_no, head_key |-> "echo_no"],
       [file_key |-> K_nslices, head_key |-> "nslices"],
       [file_key |-> K_slice_no, head_key |-> "sl"],
       [file_key |-> K_bigendian, head_key |-> "endian"],
       [file_key |-> K_array_dim, head_key |-> "array_dim"],
       [file_key |-> K_bigendian, head_key |-> "endian"],
       [file_key |-> K_studyid, head_key |-> "studyid"] >>

RECURSIVE FirstTag(_, _)
\* the first entry of find_values, from the i-th on, whose tag the line
\* holds after column 0; 0 when there is none
FirstTag(line, i) ==
    IF i > Len(find_values) THEN 0
    ELSE IF Find(line, find_values[i].file_key) > 0 THEN i
    ELSE FirstTag(line, i + 1)

\* the for loop over find_values: the first tag found after column 0 takes
\* the line; the value is what named_value_regex extracts, a str
ScanTable(h, line) ==
    LET i == FirstTag(line, 1)
        m == FindallNamed(line)
    IN  IF i = 0 THEN Ok(h)
        ELSE IF m = <<>> THEN Raise("IndexError", h)
        ELSE Ok(Put(h, find_values[i].head_key, PyStr(m[1])))

\* if type(raw_header['endian']) is int: '>' if nonzero else '<'
NormalizeEndian(h) ==
    IF h["endian"].type = "int"
    THEN Put(h, "endian", PyStr(IF h["endian"].val # 0 THEN <<62>> ELSE <<60>>))
    ELSE h

\* NormalizeUnit without the rewriting of 'cm'
NormalizeUnitKeep(unit) == unit

\* if unit == 'cm': unit = 'mm'
NormalizeUnit(unit) == IF unit = U_cm THEN U_mm ELSE unit

\* the if / elif chain on 'abscissa', 'roi', 'orientation', 'origin', 'matrix'
ScanArrays(h, line) ==
    IF Find(line, K_abscissa) > 0
    THEN LET m == FindallUnits(Rstrip(line))
         IN  IF m = <<>> THEN Raise("IndexError", h)
             ELSE Ok(Put(Put(h, "xyz_units", NormalizeUnit(StripQuotes(m[1]))),
                         "t_units", S_unknown))
    ELSE IF Find(line, K_roi) > 0
    THEN LET m == FindallFloat(Rstrip(line))
         IN  Ok(Put(h, "real_voxel_dim",
                    [i \in 1..Len(m) |-> RatMul(ParseFloat(m[i]), 10)]))
    ELSE IF Find(line, K_orientation) > 0
    THEN LET m == FindallFloat(Rstrip(line))
         IN  Ok(Put(h, "orientation", [i \in 1..Len(m) |-> ParseFloat(m[i])]))
    ELSE IF Find(line, K_origin) > 0
    THEN LET m == FindallFloat(Rstrip(line))
         IN  Ok(Put(h, "origin", [i \in 1..Len(m) |-> ParseFloat(m[i])]))
    ELSE IF Find(line, K_matrix) > 0
    THEN LET m == FindallDigits(Rstrip(line))
         IN  Ok(Put(h, "shape", [i \in 1..Len(m) |-> DigitsValue(m[i])]))
    ELSE Ok(h)

\* the form-feed test with the code of the newline
IsLineFeed(c) == c = 10

\* line[0] == chr(12)
IsFormFeed(c) == c = 12

\* the body of the while loop after the form-feed test, for one line
ParseLine(h, line) ==
    LET s1 == ScanTable(h, line)
    IN  IF s1.err # "" THEN s1 ELSE ScanArrays(NormalizeEndian(s1.h), line)

\* ------------------------------------------------------------------------
\* read_file: the payload and the geometry
\* ------------------------------------------------------------------------
\* "{}f".format(nb_voxels) behind '<' or '>'
MakeFmt(h) ==
    [order |-> IF \E i \in 1..Len(h["endian"].val) : h["endian"].val[i] = 60
               THEN 60 ELSE 62,
     count |-> Prod(h["shape"])]

\* fp.seek(-nb_voxels * 4, 2): the offset it reaches, negative when the
\* file is shorter than that (seek then raises OSError)
SeekFromEnd(bytes, nb_voxels) == Len(bytes) - nb_voxels * 4

\* [j/i for i, j in zip(shape, real_voxel_dim)]
VoxelDim(h) ==
    LET n == IF Len(h["shape"]) < Len(h["real_voxel_dim"])
             THEN Len(h["shape"]) ELSE Len(h["real_voxel_dim"])
    IN  [i \in 1..n |-> RatDivInt(h["real_voxel_dim"][i], h["shape"][i])]

\* lines 195-203: reshape to the reversed shape, squeeze, transpose(2, 1, 0)
\* unless the shape has two entries, then rot90(data, 3)[:, ::-1]
Orient(h, data) ==
    LET correct_shape == Reverse(h["shape"])
        sq == Squeeze(Arr(correct_shape, data))
        tr == IF Len(h["shape"]) # 2 THEN Transpose(sq, <<2, 1, 0>>) ELSE sq
    IN  IF ~CanReshape(data, correct_shape) THEN Raise("ValueError", <<>>)
        ELSE IF Len(h["shape"]) # 2 /\ Ndim(sq) # 3 THEN Raise("ValueError", <<>>)
        ELSE IF Ndim(tr) < 2 THEN Raise("ValueError", <<>>)
        ELSE Ok(Flip(Rot90x3(tr), 1))

\* ------------------------------------------------------------------------
\* read_directory
\* ------------------------------------------------------------------------
\* Unzip as it would be if unpacking nothing yielded two empty tuples
UnzipLenient(rets) ==
    Ok([all_headers |-> [i \in 1..Len(rets) |-> rets[i][1]],
        all_data |-> [i \in 1..Len(rets) |-> rets[i][2]]])

\* all_headers, all_data = zip(*[read_file(fl) for fl in files]): zip of
\* nothing yields nothing, and unpacking it into two names raises
Unzip(rets) ==
    IF Len(rets) = 0 THEN Raise("ValueError", <<>>)
    ELSE Ok([all_headers |-> [i \in 1..Len(rets) |-> rets[i][1]],
             all_data |-> [i \in 1..Len(rets) |-> rets[i][2]]])

\* round(x) of Python 3 for x = n / t: halves go to the even neighbour
RoundDiv(n, t) ==
    LET q == n \div t
        r == n % t
    IN  IF 2 * r < t THEN q
        ELSE IF 2 * r > t THEN q + 1
        ELSE IF q % 2 = 0 THEN q ELSE q + 1

\* SplitShape with the two new axes in the wrong order
SplitShapeSwapped(shape, time) ==
    <<shape[1], shape[2], time, RoundDiv(shape[3], time)>>

\* (shape[0], shape[1], round(shape[2] / time), time)
SplitShape(shape, time) ==
    <<shape[1], shape[2], RoundDiv(shape[3], time), time>>

\* final_header['voxel_dim'].extend(real_voxel_dim[len(shape) - 1:]) when
\* the lengths of shape and voxel_dim differ
ExtendVoxelDim(h, shape) ==
    IF Len(shape) # Len(h["voxel_dim"])
    THEN h["voxel_dim"]
         \o SubSeq(h["real_voxel_dim"], Len(shape), Len(h["real_voxel_dim"]))
    ELSE h["voxel_dim"]

\* the branch for slices of fewer than three axes (lines 235-255)
AssembleSlices(h0, stacked) ==
    LET vol == Transpose(stacked, <<1, 2, 0>>)
        vd == ExtendVoxelDim(h0, vol.shape)
        h1 == Put(Put(h0, "shape", vol.shape), "voxel_dim", vd)
        ad == h1["array_dim"].val
        time == RatTrunc(ParseFloat(ad))
        shape4 == SplitShape(vol.shape, time)
    IN  IF Ndim(stacked) # 3 THEN Raise("ValueError", <<>>)
        ELSE IF "array_dim" \notin DOMAIN h1 THEN Raise("KeyError", <<>>)
        ELSE IF ~IsDecimal(ad) THEN Raise("ValueError", <<>>)
        ELSE IF time > 1
        THEN IF ~CanReshape(vol.flat, shape4) THEN Raise("ValueError", <<>>)
             ELSE Ok(PyTuple(<<NdArray(Arr(shape4, vol.flat)),
                               Dict(Put(Put(h1, "shape", shape4),
                                        "voxel_dim", vd \o <<Rat(1, 1)>>))>>))
        ELSE Ok(PyTuple(<<NdArray(vol), Dict(h1)>>))

\* the branch for volumetric slices (lines 257-260)
AssembleVolumes(h0, stacked) ==
    LET vol == Transpose(Transpose(stacked, <<3, 2, 1, 0>>), <<1, 0, 2, 3>>)
    IN  IF Ndim(stacked) # 4 THEN Raise("ValueError", <<>>)
        ELSE Ok(PyTuple(<<NdArray(vol),
                          Dict(Put(Put(h0, "shape", vol.shape),
                                   "voxel_dim", h0["voxel_dim"] \o <<Rat(1, 1)>>))>>))

\* lines 225-262: what read_directory returns (.h) or raises (.err)
Assembled(rets) ==
    LET z == Unzip(rets)
    IN  IF z.err # "" THEN z
        ELSE IF Len(z.h.all_headers) = 0 THEN Ok(PyNone)
        ELSE LET h0 == z.h.all_headers[1].v
                 stacked == Stack([i \in 1..Len(rets) |-> z.h.all_data[i].v])
             IN  IF Ndim(stacked) < 4 THEN AssembleSlices(h0, stacked)
                 ELSE AssembleVolumes(h0, stacked)

\* ------------------------------------------------------------------------
\* load_fdf
\* ------------------------------------------------------------------------
\* the gradient entries of a complete procpar file, as add_gradient_info
\* stores them: diff_x with its sign inverted
AddGradientInfo(h) ==
    Put(Put(Put(Put(h, "bvalue", <<Rat(0, 1), Rat(1000, 1)>>),
                "diff_x", <<Rat(0, 1), Rat(-1, 1)>>),
            "diff_y", <<Rat(0, 1), Rat(0, 1)>>),
        "diff_z", <<Rat(0, 1), Rat(0, 1)>>)

\* data, header = <what read_file or read_directory returned>
UnpackPair(ret) ==
    IF ret.kind = "None" THEN Raise("TypeError", <<>>)
    ELSE Ok([data |-> ret.v[1], header |-> ret.v[2]])

\* lines 33-42 for the object bound to `header`: add_gradient_info stores
\* four keys in it when the procpar file is complete, which an ndarray
\* refuses (IndexError)
WithProcpar(header, procpar) ==
    IF procpar # "full" THEN Ok(header)
    ELSE IF header.kind = "dict" THEN Ok(Dict(AddGradientInfo(header.v)))
    ELSE Raise("IndexError", <<>>)

\* ------------------------------------------------------------------------
\* The state machine
\* ------------------------------------------------------------------------
VARIABLES
    path,        \* what load_fdf is given: a file or a directory of files
    pc,          \* where the call is
    fidx,        \* the file being read (1-based), 0 before the first
    pos,         \* the offset of fp in that file
    hdr_end,     \* the offset at which the while loop broke, -1 before
    raw_header,  \* raw_header of the read_file call in progress
    data,        \* the tuple struct.unpack returned
    returned,    \* what the read_file calls made so far returned
    ret,         \* what read_file / read_directory returned to load_fdf
    procpar,     \* the procpar file load_fdf found
    result,      \* what load_fdf returned
    err          \* the exception raised, and the function that raised it

vars == <<path, pc, fidx, pos, hdr_end, raw_header, data, returned, ret, procpar,
          result, err>>

NoErr == [exc |-> "", where |-> ""]
Bytes == FileBytes(path.d, fidx)

Init ==
    /\ path \in FileInputs \cup DirInputs
    /\ pc = "start"
    /\ fidx = 0
    /\ pos = 0
    /\ hdr_end = -1
    /\ raw_header = <<>>
    /\ data = <<>>
    /\ returned = <<>>
    /\ ret = Unset
    /\ procpar = "absent"
    /\ result = <<>>
    /\ err = NoErr

Fail(exc, where) ==
    /\ pc' = "error"
    /\ err' = [exc |-> exc, where |-> where]

\* read_file is entered for the next file: lines 93-117
BeginFile ==
    /\ fidx' = fidx + 1
    /\ pos' = 0
    /\ hdr_end' = -1
    /\ raw_header' = InitialHeader
    /\ data' = <<>>
    /\ pc' = "header"

\* load_fdf picks read_directory or read_file; read_directory lists and
\* sorts the files and starts on the first, if any
Open ==
    /\ pc = "start"
    /\ IF path.isdir /\ path.n = 0
       THEN pc' = "assemble" /\ UNCHANGED <<fidx, pos, hdr_end, raw_header, data>>
       ELSE BeginFile
    /\ UNCHANGED <<path, returned, ret, procpar, result, err>>

\* one turn of the while loop of read_file (lines 119-173)
ReadLine ==
    /\ pc = "header"
    /\ LET raw == ReadLineAt(Bytes, pos)
           line == Decode(raw)
           p == ParseLine(raw_header, line)
       IN  IF DecodeFails(line)
           THEN Fail("UnicodeDecodeError", "read_file")
                /\ UNCHANGED <<pos, hdr_end, raw_header>>
           ELSE IF line = <<>>
           THEN Fail("IndexError", "read_file")
                /\ UNCHANGED <<pos, hdr_end, raw_header>>
           ELSE IF IsFormFeed(line[1])
           THEN /\ pc' = "decode"
                /\ pos' = pos + Len(raw)
                /\ hdr_end' = pos + Len(raw)
                /\ UNCHANGED <<raw_header, err>>
           ELSE IF p.err # ""
           THEN /\ Fail(p.err, "read_file")
                /\ pos' = pos + Len(raw)
                /\ UNCHANGED <<hdr_end, raw_header>>
           ELSE /\ raw_header' = p.h
                /\ pos' = pos + Len(raw)
                /\ UNCHANGED <<pc, hdr_end, err>>
    /\ UNCHANGED <<path, fidx, data, returned, ret, procpar, result>>

\* lines 175-188: fmt, the seek from the end of the file, read and unpack
DecodeData ==
    /\ pc = "decode"
    /\ LET fmt == MakeFmt(raw_header)
           start == SeekFromEnd(Bytes, fmt.count)
       IN  IF start < 0
           THEN /\ Fail("OSError", "read_file")
                /\ raw_header' = Put(raw_header, "fmt", fmt)
                /\ UNCHANGED <<pos, data>>
           ELSE /\ raw_header' = Put(raw_header, "fmt", fmt)
                /\ data' = Unpack(fmt, Slice(Bytes, start, start + 4 * fmt.count))
                /\ pos' = start + 4 * fmt.count
                /\ pc' = "orient"
                /\ UNCHANGED err
    /\ UNCHANGED <<path, fidx, hdr_end, returned, ret, procpar, result>>

\* lines 190-205: voxel_dim, the reshaping and the rotation; read_file
\* returns (raw_header, data) to its caller
Normalize ==
    /\ pc = "orient"
    /\ IF "real_voxel_dim" \notin DOMAIN raw_header
       THEN Fail("KeyError", "read_file") /\ UNCHANGED <<raw_header, returned, ret>>
       ELSE LET h == Put(raw_header, "voxel_dim", VoxelDim(raw_header))
                a == Orient(h, data)
            IN  /\ raw_header' = h
                /\ IF a.err # ""
                   THEN Fail(a.err, "read_file") /\ UNCHANGED <<returned, ret>>
                   ELSE LET tuple == <<Dict(h), NdArray(a.h)>>
                        IN  IF path.isdir
                            THEN /\ returned' = Append(returned, tuple)
                                 /\ pc' = IF fidx < path.n THEN "next" ELSE "assemble"
                                 /\ UNCHANGED <<ret, err>>
                            ELSE /\ ret' = PyTuple(tuple)
                                 /\ pc' = "finish"
                                 /\ UNCHANGED <<returned, err>>
    /\ UNCHANGED <<path, fidx, pos, hdr_end, data, procpar, result>>

\* the list comprehension of read_directory moves to the next file
NextFile ==
    /\ pc = "next"
    /\ BeginFile
    /\ UNCHANGED <<path, returned, ret, procpar, result, err>>

\* lines 225-262 of read_directory, once every file is read
Assemble ==
    /\ pc = "assemble"
    /\ LET a == Assembled(returned)
       IN  IF a.err # ""
           THEN Fail(a.err, "read_directory") /\ UNCHANGED ret
           ELSE /\ ret' = a.h
                /\ pc' = "finish"
                /\ UNCHANGED err
    /\ UNCHANGED <<path, fidx, pos, hdr_end, raw_header, data, returned, procpar,
                   result>>

\* load_fdf binds (data, header) to what it got back, looks for procpar
\* and returns (data, header): lines 27-42
Finish ==
    /\ pc = "finish"
    /\ \E pp \in ProcparKinds :
        /\ procpar' = pp
        /\ LET u == UnpackPair(ret)
               g == WithProcpar(u.h.header, pp)
           IN  IF u.err # ""
               THEN Fail(u.err, "load_fdf") /\ UNCHANGED result
               ELSE IF g.err # ""
               THEN Fail(g.err, "add_gradient_info") /\ UNCHANGED result
               ELSE /\ result' = <<u.h.data, g.h>>
                    /\ pc' = "done"
                    /\ UNCHANGED err
    /\ UNCHANGED <<path, fidx, pos, hdr_end, raw_header, data, returned, ret>>

Next == Open \/ ReadLine \/ DecodeData \/ Normalize \/ NextFile \/ Assemble \/ Finish

Spec == Init /\ [][Next]_vars

\* the call has returned or raised
Ended == pc \in {"done", "error"}

\* the interpreter keeps running the call until it returns or raises: weak
\* fairness of Next, with the enabledness of Next written out (a step is
\* possible exactly as long as the call has not ended)
FairSpec == Spec /\ ([]<>Ended \/ []<><<Next>>_vars)


\* ------------------------------------------------------------------------
\* What the properties speak of
\* ------------------------------------------------------------------------
\* the tuples (raw_header, data) that read_file has returned so far
ReturnedTuples ==
    IF path.isdir THEN {returned[i] : i \in 1..Len(returned)}
    ELSE IF ret.kind = "tuple" THEN {ret.v} ELSE {}

\* ten times the i-th number of the roi line the model writes
RoiTimes10(i) == IF i % 2 = 1 THEN 10 * i ELSE i

\* a file with a matrix line, a roi value for every axis, the form-feed
\* line and a payload of the declared size
WellFormed(d) ==
    /\ Len(d.matrix) >= 2 /\ d.nroi >= Len(d.matrix)
    /\ d.tail = "ff" /\ d.extra = 0

\* the offset just behind the abscissa line of a file
AbscissaEnd(d) ==
    Len(T_magic) + (IF d.matrix = <<>> THEN 0 ELSE Len(MatrixLine(d.matrix)))
    + Len(AbscissaLine(d.unit))

\* the least member of a set of numbers
Min(S) == CHOOSE x \in S : \A y \in S : x <= y

\* the offsets at which the lines of the file begin with a form-feed, and
\* the offset behind the line that begins at o
FormFeedLines ==
    LET b == Bytes
    IN  {o \in 0..(Len(b) - 1) :
            /\ b[o + 1] = 12
            /\ (o = 0 \/ b[o] = 10)}
LineEnd(o) ==
    LET b == Bytes
    IN  Min({k \in (o + 1)..Len(b) : b[k] = 10} \cup {Len(b)})

\* ------------------------------------------------------------------------
\* Properties
\* ------------------------------------------------------------------------

\* C1: load_fdf on a single file returns (array, header), the order it
\* returns for a directory, and with a complete procpar file the gradient
\* fields are in that header.
C1_SingleFileReturnsArrayThenHeader ==
    (~path.isdir /\ ret.kind = "tuple" /\ pc \in {"done", "error"}) =>
        /\ pc = "done"
        /\ result[1].kind = "ndarray"
        /\ result[2].kind = "dict"
        /\ (procpar = "full" => "bvalue" \in DOMAIN result[2].v)

C3_BigendianFlagSelectsByteOrder ==
    ( /\ fidx >= 1 /\ WellFormed(path.d) /\ path.d.bigendian # -1
      /\ "fmt" \in DOMAIN raw_header ) =>
        LET order == IF path.d.bigendian = 0 THEN 60 ELSE 62
            n == raw_header["fmt"].count
            window == SubSeq(Bytes, Len(Bytes) - 4 * n + 1, Len(Bytes))
        IN  /\ raw_header["endian"].val = <<order>>
            /\ raw_header["fmt"].order = order
            /\ (data # <<>> =>
                    \A e \in 1..n :
                        data[e] = IF order = 60
                                  THEN Word(window[4 * e], window[4 * e - 1],
                                            window[4 * e - 2], window[4 * e - 3])
                                  ELSE Word(window[4 * e - 3], window[4 * e - 2],
                                            window[4 * e - 1], window[4 * e]))

\* C4: read_file returns an array only when the payload behind the
\* form-feed line has exactly product(shape) * 4 bytes; a payload shorter or
\* longer than that makes it fail.
C4_SizeMismatchRaises ==
    (~path.isdir /\ ret.kind = "tuple") =>
        Len(Bytes) - hdr_end = 4 * Prod(raw_header["shape"])

\* C5: over N two-dimensional slices of shape (a, b) whose first header
\* declares array_dim = t: when t > 1 divides N the volume and the header
\* take the shape (a, b, N/t, t), the a*b*N elements keep their order, and
\* exactly one entry 1 is appended to voxel_dim; when t <= 1 the shape
\* stays (a, b, N) and nothing is appended.
C5_TimeAxisSplit ==
    ( /\ path.isdir /\ path.n >= 1 /\ Len(returned) = path.n
      /\ Len(path.d.matrix) = 2 /\ path.d.array_dim >= 0
      /\ pc \in {"finish", "done", "error"} ) =>
        LET a == path.d.matrix[1]
            b == path.d.matrix[2]
            N == path.n
            t == path.d.array_dim
            slice(f) == returned[f][2].v
            h0 == returned[1][1].v
            base == Len(h0["voxel_dim"])
                    + (IF Len(h0["real_voxel_dim"]) > 2
                       THEN Len(h0["real_voxel_dim"]) - 2 ELSE 0)
            vol == ret.v[1].v
            vd == ret.v[2].v["voxel_dim"]
        IN  IF t <= 1
            THEN /\ ret.kind = "tuple"
                 /\ vol.shape = <<a, b, N>>
                 /\ ret.v[2].v["shape"] = <<a, b, N>>
                 /\ \A i \in 0..(a - 1), j \in 0..(b - 1), f \in 0..(N - 1) :
                        vol.flat[(i * b + j) * N + f + 1]
                            = slice(f + 1).flat[i * b + j + 1]
                 /\ Len(vd) = base
            ELSE IF N % t = 0
            THEN /\ ret.kind = "tuple"
                 /\ vol.shape = <<a, b, N \div t, t>>
                 /\ ret.v[2].v["shape"] = <<a, b, N \div t, t>>
                 /\ Len(vol.flat) = a * b * N
                 /\ \A i \in 0..(a - 1), j \in 0..(b - 1), f \in 0..(N - 1) :
                        vol.flat[(i * b + j) * N + f + 1]
                            = slice(f + 1).flat[i * b + j + 1]
                 /\ Len(vd) = base + 1
                 /\ vd[Len(vd)] = Rat(1, 1)
            ELSE TRUE

C5_Witness ==
    /\ path.isdir /\ path.n = 4 /\ path.d.array_dim = 2
    /\ path.d.matrix = <<2, 3>>
    /\ pc = "finish" /\ ret.kind = "tuple"
    /\ ret.v[1].v.shape = <<2, 3, 2, 2>>

\* C6 as claimed: for every abscissa line whose first quoted token is a
\* unit u of two letters, parsing records xyz_units = "mm" when u = "cm" and
\* u otherwise, t_units = "unknown", and normalizing again changes nothing.
C6_AnyTwoLetterUnit ==
    (fidx >= 1 /\ Len(path.d.unit) = 2 /\ pos >= AbscissaEnd(path.d)) =>
        /\ "xyz_units" \in DOMAIN raw_header
        /\ raw_header["xyz_units"]
               = (IF path.d.unit = U_cm THEN U_mm ELSE path.d.unit)
        /\ raw_header["t_units"] = S_unknown
        /\ NormalizeUnit(raw_header["xyz_units"]) = raw_header["xyz_units"]

\* C6 as amended: the same for every unit u of two lower-case letters
\* [a-z]; other tokens are not found by the pattern.
C6_LowerCaseUnit ==
    ( /\ fidx >= 1 /\ Len(path.d.unit) = 2
      /\ path.d.unit[1] \in Lower /\ path.d.unit[2] \in Lower
      /\ pos >= AbscissaEnd(path.d) ) =>
        /\ "xyz_units" \in DOMAIN raw_header
        /\ raw_header["xyz_units"]
               = (IF path.d.unit = U_cm THEN U_mm ELSE path.d.unit)
        /\ raw_header["t_units"] = S_unknown
        /\ NormalizeUnit(raw_header["xyz_units"]) = raw_header["xyz_units"]

C6_Witness ==
    /\ ~path.isdir /\ path.d.unit = U_cm /\ pc = "finish"
    /\ raw_header["xyz_units"] = U_mm
    /\ raw_header["t_units"] = S_unknown

\* C7: once read_file has returned, voxel_dim[i] = real_voxel_dim[i] /
\* shape[i] for every axis i of the declared shape, real_voxel_dim[i] being
\* ten times the i-th number of the roi line.
C7_VoxelDimPerAxis ==
    \A tuple \in ReturnedTuples :
        \A i \in 1..Len(path.d.matrix) :
            /\ i <= Len(tuple[1].v["voxel_dim"])
            /\ tuple[1].v["voxel_dim"][i] = Rat(RoiTimes10(i), path.d.matrix[i])

\* C8: after read_directory over two-dimensional slices voxel_dim has as
\* many entries as the volume has axes, whatever the number of roi values.
\* Stated for the roi lines that have a value for the third axis.
C8_VoxelDimFitsVolume ==
    ( /\ path.isdir /\ ret.kind = "tuple" /\ Len(path.d.matrix) = 2
      /\ path.d.nroi >= 3 ) =>
        Len(ret.v[2].v["voxel_dim"]) = Ndim(ret.v[1].v)

\* C9 as claimed: for a declared shape [s0, s1] and the unpacked payload p,
\* read_file returns an array of shape (s0, s1) with
\* array[i][j] = p[j*s0 + i].
C9_TransposeAnyShape ==
    ( /\ ~path.isdir /\ Len(path.d.matrix) = 2 /\ path.d.nroi >= 1
      /\ data # <<>> /\ pc \in {"finish", "done", "error"} ) =>
        LET s0 == path.d.matrix[1]
            s1 == path.d.matrix[2]
        IN  /\ ret.kind = "tuple"
            /\ ret.v[2].v.shape = <<s0, s1>>
            /\ \A i \in 0..(s0 - 1), j \in 0..(s1 - 1) :
                   ret.v[2].v.flat[i * s1 + j + 1] = data[j * s0 + i + 1]

\* C9 as amended: the same when s0 >= 2 and s1 >= 2; with an axis of
\* length 1 squeeze drops it and read_file raises instead of returning.
C9_TransposeNoUnitAxis ==
    ( /\ ~path.isdir /\ Len(path.d.matrix) = 2 /\ path.d.nroi >= 1
      /\ data # <<>> /\ pc \in {"finish", "done", "error"} ) =>
        LET s0 == path.d.matrix[1]
            s1 == path.d.matrix[2]
        IN  IF s0 >= 2 /\ s1 >= 2
            THEN /\ ret.kind = "tuple"
                 /\ ret.v[2].v.shape = <<s0, s1>>
                 /\ \A i \in 0..(s0 - 1), j \in 0..(s1 - 1) :
                        ret.v[2].v.flat[i * s1 + j + 1] = data[j * s0 + i + 1]
            ELSE ret = Unset /\ pc = "error" /\ err.exc = "ValueError"

C9_Witness ==
    /\ ~path.isdir /\ path.d.matrix = <<2, 3>> /\ pc = "finish"
    /\ ret.v[2].v.shape = <<2, 3>>
    /\ ret.v[2].v.flat[2] = data[3]

\* C10: the header loop of read_file ends on every file: it breaks at the
\* first line that begins with a form-feed, and a file without such a line
\* ends it with an error at the end of the file, never with a return.
C10_LoopSafety ==
    fidx >= 1 =>
        LET ff == FormFeedLines
        IN  /\ hdr_end >= 0 => (ff # {} /\ hdr_end = LineEnd(Min(ff)))
            /\ (ff # {} /\ hdr_end = -1) => pos < LineEnd(Min(ff))
            /\ ff = {} =>
                  (hdr_end = -1 /\ pc \in {"header", "error"} /\ ReturnedTuples = {})

C10_HeaderLoopEnds ==
    /\ []C10_LoopSafety
    /\ (pc = "header") ~> (pc # "header")

C10_Witness ==
    /\ ~path.isdir /\ FormFeedLines = {}
    /\ pc = "error" /\ err.exc = "IndexError" /\ pos = Len(Bytes)

========================================================================
